---- MODULE Spec2Model ----
(***************************************************************************)
(* Model of package promise (promise.go): the Promise entity, the          *)
(* settlement engine Promise.call, the accessor Resolve, the constructors  *)
(* NewFn / NewResolved / NewRejected / zero construction, and the chaining *)
(* combinators Then and Catch.                                             *)
(*                                                                         *)
(* Every goroutine is a task with a stack of frames; one step of a task is *)
(* the code between two synchronisation points (a mutex Lock, a go         *)
(* statement, the start and the return of a user function).                *)
(* A run starts with the root promise, promise 1, just constructed; every  *)
(* other promise is derived from an existing one by Then or Catch.         *)
(*                                                                         *)
(* The batch combinators All, Race and Iterator (promise_utils.go) are     *)
(* modelled on top of it, each with a specification of its own (SpecAll,   *)
(* SpecRace, SpecIter): a run starts with the main task calling the        *)
(* combinator on promises that are already constructed.                    *)
(*                                                                         *)
(* Termination is stated under FairLockSpec, FairSpecAll and FairSpecRace, *)
(* which add to a specification the fairness the Go runtime provides.      *)
(***************************************************************************)
EXTENDS Integers, Sequences, FiniteSets, TLC

\* ---------------------------------------------------------------- bounds
MaxPromises == 3      \* promises constructed in a run in which Resolve is not called
MaxWatched == 2       \* promises constructed in a run in which the main task polls one
MaxInputs == 2        \* promises handed to All, Race or Iterator
MaxExtraCalls == 2    \* calls of the function of Iterator after the last promise

\* ------------------------------------------------------------- universes
\* the promises of a run of the chaining API, and of a run of a batch combinator
\* (every input, and per input the promise derived by Then and the one by Catch)
CorePIDs == 1..(IF MaxWatched > MaxPromises THEN MaxWatched ELSE MaxPromises)
UtilPIDs == 1..(3 * MaxInputs)
Main == 0                        \* the task of the caller of the API
NoTask == -1                     \* an unlocked sync.Mutex
Worker(i) == -1 - i              \* the goroutine All starts with wg.Go for promises[i]
Workers == {Worker(i) : i \in 1..MaxInputs}
\* goroutine d is the one that settles promise d
CoreTasks == {Main} \cup CorePIDs
UtilTasks == {Main} \cup UtilPIDs \cup Workers
ZeroVal == 0                     \* zero value of T
NilErr == "nil"                  \* the nil error
\* what the functions given to NewFn return: a value, or an error next to a value
ProducerOutcomes == {<<1, NilErr>>, <<2, "e1">>}
ResolvedValues == {1}            \* arguments of NewResolved
RejectedErrors == {"e1"}         \* arguments of NewRejected
Fns == {"succ", "fail"}          \* user functions given to Then and Catch

\* list.New() and a nil *list.List
NewList == [nil |-> FALSE, items |-> <<>>]
NilList == [nil |-> TRUE, items |-> <<>>]

\* mutation of PushBack: l.PushFront(h)
PushFront(l, h) == [l EXCEPT !.items = <<h>> \o @]

\* l.PushBack(h)
PushBack(l, h) == [l EXCEPT !.items = Append(@, h)]

\* the user function f given to Then(p, f), applied to the value v
Succ(v) == IF v = 1 THEN 2 ELSE 1
ApplyThen(f, v) == IF f = "succ" THEN <<Succ(v), NilErr>> ELSE <<ZeroVal, "e2">>

\* the user function f given to Catch(p, f), applied to the error e
Code(e) == IF e = "e1" THEN 1 ELSE IF e = "e2" THEN 2 ELSE ZeroVal
ApplyCatch(f, e) == IF f = "succ" THEN <<Code(e), NilErr>> ELSE <<ZeroVal, "e2">>

VARIABLES
    watch,       \* the promise the main task polls with Resolve in this run, or 0
    nAlloc,      \* number of Promise structs constructed so far
    notDone,     \* Promise.notDone
    res,         \* Promise.res
    err,         \* Promise.err
    thenList,    \* Promise.thenList
    errorList,   \* Promise.errorList
    lock,        \* Promise.lock: the task holding it, or NoTask
    doneMu,      \* Promise.doneMu: the task holding it, or NoTask
    stack,       \* per task, the frames of the calls in progress (top is last)
    made,        \* history: how each promise was constructed
    invoked,     \* history: how often the user function behind promise d was started
    hArg,        \* history: the argument that user function was started with
    settles,     \* history: how often a promise went from pending to settled
    regLog,      \* history: per promise, the registrations made while pending, in order
    invLog,      \* history: per promise, the queued handlers started by its pass, in order
    seen,        \* history: the non-nil pairs Resolve has returned
    nSeen,       \* history: how often Resolve returned a pair (counted up to 2)
    nilSeen,     \* history: Resolve has returned nil
    earlyPair,   \* history: Resolve returned a pair before the promise's function returned
    lateNil,     \* history: Resolve returned nil for a promise settled when it was called
    inputs,      \* the promises handed to All, Race or Iterator (promises ...*Promise[T])
    results,     \* All: the slice results; Race: the variable res
    done,        \* Race: the flag done
    wgErr,       \* All: the first error a function started with wg.Go returned
    ret,         \* what All, Race and the function of Iterator have returned, in order
    won,         \* history: the notifications of Race that got 0 from the exchange
    sent         \* history: the notifications whose channel send was received

\* the promises and the tasks of this run
PIDs == DOMAIN notDone
Tasks == DOMAIN stack

resolveHist == <<seen, nSeen, nilSeen, earlyPair, lateNil>>
utilVars == <<inputs, results, done, wgErr, ret, won, sent>>
vars == <<watch, nAlloc, notDone, res, err, thenList, errorList, lock, doneMu, stack,
          made, invoked, hArg, settles, regLog, invLog, resolveHist, utilVars>>

promiseVars == <<notDone, res, err, thenList, errorList>>
histVars == <<made, invoked, hArg, settles, regLog, invLog, resolveHist>>

\* ---------------------------------------------------------------- frames
NoMade == [kind |-> "none", src |-> 0, f |-> "", path |-> "", v |-> ZeroVal, e |-> NilErr,
           raced |-> FALSE, by |-> NoTask]

\* a frame of Promise.call(f) on promise p; ck says which closure f is:
\*   "producer"  the function given to NewFn, returning (v, e)
\*   "thenFn"    promise.go:113  func() { return f(res) }
\*   "passErr"   promise.go:121  func() { innerErr = err; return }
\*   "thenDone"  promise.go:139  the closure of Then's already-settled path
\*   "catchFn"   promise.go:172  func() { return f(err) }
\*   "catchDone" promise.go:195  the closure of Catch's already-settled path
CallFrame(p, ck, f, src, v, e) ==
    [op |-> "call", pc |-> "f", p |-> p, ck |-> ck, f |-> f, src |-> src,
     v |-> v, e |-> e, res |-> ZeroVal, err |-> NilErr, q |-> <<>>, d |-> 0]

\* a frame of Then(p, f), Catch(p, f) or p.Resolve()
ApiFrame(op, p) ==
    [op |-> op, pc |-> "body", p |-> p, ck |-> "", f |-> "", src |-> 0,
     v |-> ZeroVal, e |-> NilErr, res |-> ZeroVal, err |-> NilErr, q |-> <<>>, d |-> 0]

Top(t) == stack[t][Len(stack[t])]
HasTop(t) == Len(stack[t]) > 0
Pop(t) == [stack EXCEPT ![t] = SubSeq(@, 1, Len(@) - 1)]
SetTop(t, fr) == [stack EXCEPT ![t] = [@ EXCEPT ![Len(@)] = fr]]
Push(t, fr) == [stack EXCEPT ![t] = Append(@, fr)]
ReplaceTopAndPush(t, fr, new) == [stack EXCEPT ![t] = Append([@ EXCEPT ![Len(@)] = fr], new)]

\* some task is inside p.call(...) at the given position
CallAt(p, pc) ==
    \E t \in Tasks : \E i \in 1..Len(stack[t]) :
        stack[t][i].op = "call" /\ stack[t][i].p = p /\ stack[t][i].pc = pc

\* ----------------------------------------------------- constructors, Init
\* &Promise[X]{notDone: true, errorList: list.New(), thenList: list.New()} (84, 111, 166)
Pending == [notDone |-> TRUE, res |-> ZeroVal, err |-> NilErr, lists |-> NewList]

\* promise.go:83  NewFn(f), f returning (v, e): a pending promise and go p.call(f)
NewFn(v, e) == [kind |-> "NewFn", fields |-> Pending, v |-> v, e |-> e]

\* promise.go:90  NewResolved(result)
NewResolved(v) ==
    [kind |-> "NewResolved", v |-> v, e |-> NilErr,
     fields |-> [notDone |-> FALSE, res |-> v, err |-> NilErr, lists |-> NilList]]

\* mutation of NewRejected: the error is stored in no field
NewRejectedLost(e) ==
    [kind |-> "NewRejected", v |-> ZeroVal, e |-> e,
     fields |-> [notDone |-> FALSE, res |-> ZeroVal, err |-> NilErr, lists |-> NilList]]

\* promise.go:95  NewRejected(err)
NewRejected(e) ==
    [kind |-> "NewRejected", v |-> ZeroVal, e |-> e,
     fields |-> [notDone |-> FALSE, res |-> ZeroVal, err |-> e, lists |-> NilList]]

\* promise.go:11  &Promise[T]{}, every field at its zero value
ZeroPromise ==
    [kind |-> "Zero", v |-> ZeroVal, e |-> NilErr,
     fields |-> [notDone |-> FALSE, res |-> ZeroVal, err |-> NilErr, lists |-> NilList]]

\* the ways the first promise of a run is constructed
Roots ==
    {NewFn(o[1], o[2]) : o \in ProducerOutcomes}
       \cup {NewResolved(v) : v \in ResolvedValues}
       \cup {NewRejected(e) : e \in RejectedErrors}
       \cup {ZeroPromise}

\* the state after the main task has constructed promise 1 as root r and has decided
\* to poll promise w (0: none); the other promises are not constructed yet
InitWith(r, w) ==
    /\ watch = w
    /\ nAlloc = 1
    /\ notDone = [p \in CorePIDs |-> p = 1 /\ r.fields.notDone]
    /\ res = [p \in CorePIDs |-> IF p = 1 THEN r.fields.res ELSE ZeroVal]
    /\ err = [p \in CorePIDs |-> IF p = 1 THEN r.fields.err ELSE NilErr]
    /\ thenList = [p \in CorePIDs |-> IF p = 1 THEN r.fields.lists ELSE NilList]
    /\ errorList = [p \in CorePIDs |-> IF p = 1 THEN r.fields.lists ELSE NilList]
    /\ lock = [p \in CorePIDs |-> NoTask]
    /\ doneMu = [p \in CorePIDs |-> NoTask]
    /\ stack = [t \in CoreTasks |-> IF t = 1 /\ r.kind = "NewFn"
                                THEN <<CallFrame(1, "producer", "", 0, r.v, r.e)>> ELSE <<>>]
    /\ made = [p \in CorePIDs |-> IF p = 1 THEN [NoMade EXCEPT !.kind = r.kind, !.v = r.v, !.e = r.e]
                                       ELSE NoMade]
    /\ invoked = [p \in CorePIDs |-> 0]
    /\ hArg = [p \in CorePIDs |-> <<ZeroVal, NilErr>>]
    /\ settles = [p \in CorePIDs |-> 0]
    /\ regLog = [p \in CorePIDs |-> <<>>]
    /\ invLog = [p \in CorePIDs |-> <<>>]
    /\ seen = {}
    /\ nSeen = 0
    /\ nilSeen = FALSE
    /\ earlyPair = FALSE
    /\ lateNil = FALSE
    /\ inputs = <<>>
    /\ results = <<>>
    /\ done = 0
    /\ wgErr = NilErr
    /\ ret = <<>>
    /\ won = {}
    /\ sent = {}

Init == \E r \in Roots, w \in 0..MaxWatched : InitWith(r, w)

\* ------------------------------------------------- the calls of the main task
Idle(t) == stack[t] = <<>>
CanAlloc == nAlloc < (IF watch # 0 THEN MaxWatched ELSE MaxPromises)
Fresh == nAlloc + 1

\* the fields of all promises once the next one is constructed pending (111, 166)
WithPending(nd, tl, el) ==
    [nd |-> [nd EXCEPT ![Fresh] = Pending.notDone],
     tl |-> [tl EXCEPT ![Fresh] = Pending.lists],
     el |-> [el EXCEPT ![Fresh] = Pending.lists]]

\* the main task calls Then(p, f): promise.go:103  p.lock.Lock()
CallThen(p) ==
    /\ Idle(Main) /\ CanAlloc /\ p <= nAlloc /\ lock[p] = NoTask
    /\ lock' = [lock EXCEPT ![p] = Main]
    /\ stack' = Push(Main, ApiFrame("Then", p))
    /\ UNCHANGED <<utilVars, watch, nAlloc, promiseVars, doneMu, histVars>>

\* the main task calls Catch(p, f): promise.go:161  p.lock.Lock()
CallCatch(p) ==
    /\ Idle(Main) /\ CanAlloc /\ p <= nAlloc /\ lock[p] = NoTask
    /\ lock' = [lock EXCEPT ![p] = Main]
    /\ stack' = Push(Main, ApiFrame("Catch", p))
    /\ UNCHANGED <<utilVars, watch, nAlloc, promiseVars, doneMu, histVars>>

\* the main task calls p.Resolve(): promise.go:74  p.lock.Lock()
CallResolve(p) ==
    /\ p = watch /\ Idle(Main) /\ p <= nAlloc /\ lock[p] = NoTask
    /\ lock' = [lock EXCEPT ![p] = Main]
    /\ stack' = Push(Main, [ApiFrame("Resolve", p) EXCEPT !.d = IF notDone[p] THEN 0 ELSE 1])
    /\ UNCHANGED <<utilVars, watch, nAlloc, promiseVars, doneMu, histVars>>

\* ------------------------------------------------------ Promise.call (34-61)
IsCall(t, pc) == HasTop(t) /\ Top(t).op = "call" /\ Top(t).pc = pc

\* mutation of NeedsDoneMu: the already-settled closures run without p.doneMu
NeverNeedsDoneMu(ck) == FALSE

\* closures that take the source's doneMu around the user function (141, 197)
NeedsDoneMu(ck) == ck \in {"thenDone", "catchDone"}

\* closures that run a user function given to Then
RunsThenFn(ck) == ck \in {"thenFn", "thenDone"}

\* promise.go:36  res, err := f()  returns, for the function given to NewFn
CallProducer(t) ==
    /\ IsCall(t, "f") /\ Top(t).ck = "producer"
    /\ stack' = SetTop(t, [Top(t) EXCEPT !.res = Top(t).v, !.err = Top(t).e, !.pc = "lock"])
    /\ UNCHANGED <<utilVars, watch, nAlloc, promiseVars, lock, doneMu, histVars>>

\* mutation of SkipsFn: the test at promise.go:147 is missing
SkipsNever(ck, e) == FALSE

\* promise.go:147  if err != nil: Then's already-settled closure skips f
SkipsFn(ck, e) == ck = "thenDone" /\ e # NilErr

\* promise.go:141, 147-150  p.doneMu.Lock(); innerErr = err; return (deferred Unlock)
DoneSkip(t) ==
    /\ IsCall(t, "f") /\ Top(t).ck \in {"thenDone", "catchDone"}
    /\ SkipsFn(Top(t).ck, Top(t).e)
    /\ NeedsDoneMu(Top(t).ck) => doneMu[Top(t).src] = NoTask
    /\ stack' = SetTop(t, [Top(t) EXCEPT !.res = ZeroVal, !.err = Top(t).e, !.pc = "lock"])
    /\ UNCHANGED <<utilVars, watch, nAlloc, promiseVars, lock, doneMu, histVars>>

\* the frame and the history once the user function of frame fr has been entered
Entered(fr) ==
    [fr |-> [fr EXCEPT !.pc = "fRun"],
     invoked |-> [invoked EXCEPT ![fr.p] = @ + 1],
     hArg |-> [hArg EXCEPT ![fr.p] =
                 IF RunsThenFn(fr.ck) THEN <<fr.v, NilErr>> ELSE <<ZeroVal, fr.e>>]]

\* promise.go:141 + 153, 197 + 203  p.doneMu.Lock(), then the user function is entered
DoneStart(t) ==
    /\ IsCall(t, "f") /\ Top(t).ck \in {"thenDone", "catchDone"}
    /\ ~SkipsFn(Top(t).ck, Top(t).e)
    /\ NeedsDoneMu(Top(t).ck) => doneMu[Top(t).src] = NoTask
    /\ doneMu' = IF NeedsDoneMu(Top(t).ck) THEN [doneMu EXCEPT ![Top(t).src] = t] ELSE doneMu
    /\ stack' = SetTop(t, Entered(Top(t)).fr)
    /\ invoked' = Entered(Top(t)).invoked
    /\ hArg' = Entered(Top(t)).hArg
    /\ UNCHANGED <<utilVars, watch, nAlloc, promiseVars, lock, made, settles, regLog, invLog,
                   resolveHist>>

\* what the closure returns once the user function has returned (114, 153, 173, 203)
ClosureResult(ck, f, v, e) == IF RunsThenFn(ck) THEN ApplyThen(f, v) ELSE ApplyCatch(f, e)

\* mutation of UnlockDeferred: the closure returns without p.doneMu.Unlock()
UnlockMissing(t) == t

\* promise.go:144, 200  defer p.doneMu.Unlock(): the holder of p.doneMu once the
\* closure of the already-settled path has returned
UnlockDeferred(t) == NoTask

\* the user function returns (and the deferred p.doneMu.Unlock() runs, 144 / 200)
HandlerReturn(t) ==
    /\ IsCall(t, "fRun") /\ Top(t).f \in Fns
    /\ LET fr == Top(t)
           out == ClosureResult(fr.ck, fr.f, fr.v, fr.e)
       IN  /\ stack' = SetTop(t, [fr EXCEPT !.res = out[1], !.err = out[2], !.pc = "lock"])
           /\ doneMu' = IF fr.ck \in {"thenDone", "catchDone"} /\ NeedsDoneMu(fr.ck)
                        THEN [doneMu EXCEPT ![fr.src] = UnlockDeferred(t)] ELSE doneMu
    /\ UNCHANGED <<utilVars, watch, nAlloc, promiseVars, lock, histVars>>

\* mutation of Published: p.err is not stored
PublishedNoErr(r, e) == <<r, NilErr>>

\* promise.go:41-42  the pair stored in p.res, p.err
Published(r, e) == <<r, e>>

\* mutation of Branch: the return at promise.go:56 is missing
BranchNoReturn(e, thenQ, errQ) == IF e # NilErr THEN errQ \o thenQ ELSE thenQ

\* mutation of Branch: the test at promise.go:52 is inverted
BranchInverted(e, thenQ, errQ) == IF e = NilErr THEN errQ ELSE thenQ

\* promise.go:52-60  the queue the pass walks: errorList on failure, thenList on success
Branch(e, thenQ, errQ) == IF e # NilErr THEN errQ ELSE thenQ

\* promise.go:50-61  with no handler to call and p.doneMu free, call locks p.doneMu,
\* walks the empty queue, unlocks and returns without waiting for any other task
NothingToCall(p, q) == q = <<>> /\ doneMu[p] = NoTask

\* promise.go:39  p.lock.Lock()
CallLock(t) ==
    /\ IsCall(t, "lock") /\ lock[Top(t).p] = NoTask
    /\ lock' = [lock EXCEPT ![Top(t).p] = t]
    /\ stack' = SetTop(t, [Top(t) EXCEPT !.pc = "settle"])
    /\ UNCHANGED <<utilVars, watch, nAlloc, promiseVars, doneMu, histVars>>

\* mutation of UnlockAt47: p.lock.Unlock() is deferred to the return of call
StillLocked(t) == t

\* promise.go:47  p.lock.Unlock(): the holder of p.lock once the outcome is published
UnlockAt47(t) == NoTask

\* mutation of Detach: the list stays in the field
DetachNot(l) == l

\* promise.go:43-46  thenList := p.thenList; p.thenList = nil (and errorList)
Detach(l) == NilList

\* promise.go:40-47  publish the outcome, detach both queues, p.lock.Unlock()
\* (and 50-61 when there is nothing to call)
CallSettle(t) ==
    /\ IsCall(t, "settle") /\ lock[Top(t).p] = t
    /\ LET fr == Top(t) p == fr.p
           q == Branch(fr.err, thenList[p].items, errorList[p].items)
       IN  /\ notDone' = [notDone EXCEPT ![p] = FALSE]
           /\ res' = [res EXCEPT ![p] = Published(fr.res, fr.err)[1]]
           /\ err' = [err EXCEPT ![p] = Published(fr.res, fr.err)[2]]
           /\ thenList' = [thenList EXCEPT ![p] = Detach(@)]
           /\ errorList' = [errorList EXCEPT ![p] = Detach(@)]
           /\ settles' = [settles EXCEPT ![p] = @ + 1]
           /\ lock' = [lock EXCEPT ![p] = UnlockAt47(t)]
           /\ stack' = IF NothingToCall(p, q) THEN Pop(t)
                        ELSE SetTop(t, [fr EXCEPT !.pc = "doneMu", !.q = q])
    /\ UNCHANGED <<utilVars, watch, nAlloc, doneMu, made, invoked, hArg, regLog, invLog, resolveHist>>

\* mutation of InPass: p.doneMu.Lock() at promise.go:50 is missing
InPassUnlocked(t) == IsCall(t, "loop") \/ IsCall(t, "doneMu")

\* promise.go:50  p.doneMu.Lock() has been passed: the pass holds p.doneMu, or it
\* is about to take it and p.doneMu is free
InPass(t) ==
    \/ IsCall(t, "loop")
    \/ IsCall(t, "doneMu") /\ doneMu[Top(t).p] = NoTask

\* mutation of HandlerClosure: Catch queues the pass-through closure of Then
HandlerClosureNoCatch(kind) == IF kind = "thenHn" THEN "thenFn" ELSE "passErr"

\* the closure a queued handler hands to newPromise.call (112-116, 120-125, 171-175)
HandlerClosure(kind) ==
    IF kind = "thenHn" THEN "thenFn" ELSE IF kind = "passHn" THEN "passErr" ELSE "catchFn"

\* mutation of PassErrResult: the error is not copied into innerErr
PassErrDropped(e) == <<ZeroVal, NilErr>>

\* promise.go:121-124  the closure of Then's queued failure handler returns (zero, err)
PassErrResult(e) == <<ZeroVal, e>>

\* promise.go:50-54 / 58-59  the pass calls the next queued handler, a wrapper of Then
\* or Catch, which calls newPromise.call(closure), which enters the user function
CallInvoke(t) ==
    /\ InPass(t) /\ Top(t).q # <<>>
    /\ HandlerClosure(Head(Top(t).q).kind) # "passErr"
    /\ LET fr == Top(t)
           h == Head(fr.q)
           new == CallFrame(h.d, HandlerClosure(h.kind), h.f, fr.p, fr.res, fr.err)
       IN  /\ stack' = ReplaceTopAndPush(t, [fr EXCEPT !.q = Tail(fr.q), !.pc = "loop"],
                                          Entered(new).fr)
           /\ doneMu' = [doneMu EXCEPT ![fr.p] = t]
           /\ invoked' = Entered(new).invoked
           /\ hArg' = Entered(new).hArg
           /\ invLog' = [invLog EXCEPT ![fr.p] = Append(@, <<h.d, fr.res, fr.err>>)]
    /\ UNCHANGED <<utilVars, watch, nAlloc, promiseVars, lock, made, settles, regLog, resolveHist>>

\* promise.go:50-54  the pass calls Then's queued failure handler (120-125), whose
\* closure returns the error without calling f
CallInvokePass(t) ==
    /\ InPass(t) /\ Top(t).q # <<>>
    /\ HandlerClosure(Head(Top(t).q).kind) = "passErr"
    /\ LET fr == Top(t)
           h == Head(fr.q)
           new == CallFrame(h.d, "passErr", h.f, fr.p, fr.res, fr.err)
       IN  /\ stack' = ReplaceTopAndPush(t, [fr EXCEPT !.q = Tail(fr.q), !.pc = "loop"],
                           [new EXCEPT !.res = PassErrResult(fr.err)[1],
                                       !.err = PassErrResult(fr.err)[2], !.pc = "lock"])
           /\ doneMu' = [doneMu EXCEPT ![fr.p] = t]
           /\ invLog' = [invLog EXCEPT ![fr.p] = Append(@, <<h.d, fr.res, fr.err>>)]
    /\ UNCHANGED <<utilVars, watch, nAlloc, promiseVars, lock, made, invoked, hArg, settles,
                   regLog, resolveHist>>

\* promise.go:50-51, 56, 61  the queue is exhausted: deferred p.doneMu.Unlock(), return
CallReturn(t) ==
    /\ InPass(t) /\ Top(t).q = <<>>
    /\ doneMu' = [doneMu EXCEPT ![Top(t).p] = NoTask]
    /\ stack' = Pop(t)
    /\ UNCHANGED <<utilVars, watch, nAlloc, promiseVars, lock, histVars>>

\* ------------------------------------------------------------ Then (101-155)
IsApi(t, op, pc) == HasTop(t) /\ Top(t).op = op /\ Top(t).pc = pc

\* mutation of Done: the handlers are queued without looking at notDone
DoneNever(p) == FALSE

\* promise.go:104 / 162  done := !p.notDone, read under p.lock
Done(p) == ~notDone[p]

\* a queued handler: the wrapper closure, the promise it settles, the user function
Handler(kind, d, f) == [kind |-> kind, d |-> d, f |-> f]

\* history record of a promise derived by Then or Catch; by is the task that made the
\* call (it holds p.lock), whose variables the function f has captured; raced says,
\* for a call the main task made itself, that the function of p had returned and its
\* call was waiting for p.lock
Derived(kind, p, f, path) ==
    [NoMade EXCEPT !.kind = kind, !.src = p, !.f = f, !.path = path,
                   !.raced = (Len(stack[lock[p]]) = 1 /\ CallAt(p, "lock")),
                   !.by = lock[p]]

\* promise.go:109-133  p is pending: queue thenHn and catchHn, unlock, return newPromise
ThenRegister(t, f) ==
    /\ IsApi(t, "Then", "body") /\ ~Done(Top(t).p)
    /\ LET p == Top(t).p
           new == WithPending(notDone, thenList, errorList)
       IN  /\ nAlloc' = Fresh
           /\ notDone' = new.nd
           /\ thenList' = [new.tl EXCEPT ![p] = PushBack(@, Handler("thenHn", Fresh, f))]
           /\ errorList' = [new.el EXCEPT ![p] = PushBack(@, Handler("passHn", Fresh, f))]
           /\ lock' = [lock EXCEPT ![p] = NoTask]
           /\ made' = [made EXCEPT ![Fresh] = Derived("Then", p, f, "pending")]
           /\ regLog' = [regLog EXCEPT ![p] = Append(@, <<Fresh, "Then">>)]
    /\ stack' = Pop(t)
    /\ UNCHANGED <<utilVars, watch, res, err, doneMu, invoked, hArg, settles, invLog, resolveHist>>

\* promise.go:104-106, 136-139  p is settled: unlock, return NewFn(closure) with the
\* res and err read under the lock
ThenDone(t, f) ==
    /\ IsApi(t, "Then", "body") /\ Done(Top(t).p)
    /\ LET p == Top(t).p
           new == WithPending(notDone, thenList, errorList)
       IN  /\ nAlloc' = Fresh
           /\ notDone' = new.nd
           /\ thenList' = new.tl
           /\ errorList' = new.el
           /\ lock' = [lock EXCEPT ![p] = NoTask]
           /\ stack' = [Pop(t) EXCEPT ![Fresh] =
                           <<CallFrame(Fresh, "thenDone", f, p, res[p], err[p])>>]
           /\ made' = [made EXCEPT ![Fresh] = Derived("Then", p, f, "settled")]
    /\ UNCHANGED <<utilVars, watch, res, err, doneMu, invoked, hArg, settles, regLog, invLog, resolveHist>>

\* ----------------------------------------------------------- Catch (159-208)
\* promise.go:166-183  p is pending: queue catchHn only, unlock, return newPromise
CatchRegister(t, f) ==
    /\ IsApi(t, "Catch", "body") /\ ~Done(Top(t).p)
    /\ LET p == Top(t).p
           new == WithPending(notDone, thenList, errorList)
       IN  /\ nAlloc' = Fresh
           /\ notDone' = new.nd
           /\ thenList' = new.tl
           /\ errorList' = [new.el EXCEPT ![p] = PushBack(@, Handler("catchHn", Fresh, f))]
           /\ lock' = [lock EXCEPT ![p] = NoTask]
           /\ made' = [made EXCEPT ![Fresh] = Derived("Catch", p, f, "pending")]
           /\ regLog' = [regLog EXCEPT ![p] = Append(@, <<Fresh, "Catch">>)]
    /\ stack' = Pop(t)
    /\ UNCHANGED <<utilVars, watch, res, err, doneMu, invoked, hArg, settles, invLog, resolveHist>>

\* mutation of PassesThrough: the test at promise.go:189 is missing
PassesNever(e) == FALSE

\* promise.go:189  if err == nil: Catch on a settled promise returns without a goroutine
PassesThrough(e) == e = NilErr

\* promise.go:162-166, 186-192  p is settled without error: unlock,
\* newPromise.notDone = false, return newPromise
CatchPass(t, f) ==
    /\ IsApi(t, "Catch", "body") /\ Done(Top(t).p) /\ PassesThrough(err[Top(t).p])
    /\ LET p == Top(t).p
           new == WithPending(notDone, thenList, errorList)
       IN  /\ nAlloc' = Fresh
           /\ notDone' = [new.nd EXCEPT ![Fresh] = FALSE]
           /\ thenList' = new.tl
           /\ errorList' = new.el
           /\ lock' = [lock EXCEPT ![p] = NoTask]
           /\ settles' = [settles EXCEPT ![Fresh] = @ + 1]
           /\ made' = [made EXCEPT ![Fresh] = Derived("Catch", p, f, "settled")]
    /\ stack' = Pop(t)
    /\ UNCHANGED <<utilVars, watch, res, err, doneMu, invoked, hArg, regLog, invLog, resolveHist>>

\* promise.go:162-166, 186, 195-207  p is settled with an error: unlock,
\* go newPromise.call(closure), return newPromise
CatchSpawn(t, f) ==
    /\ IsApi(t, "Catch", "body") /\ Done(Top(t).p) /\ ~PassesThrough(err[Top(t).p])
    /\ LET p == Top(t).p
           new == WithPending(notDone, thenList, errorList)
       IN  /\ nAlloc' = Fresh
           /\ notDone' = new.nd
           /\ thenList' = new.tl
           /\ errorList' = new.el
           /\ lock' = [lock EXCEPT ![p] = NoTask]
           /\ stack' = [Pop(t) EXCEPT ![Fresh] =
                           <<CallFrame(Fresh, "catchDone", f, p, ZeroVal, err[p])>>]
           /\ made' = [made EXCEPT ![Fresh] = Derived("Catch", p, f, "settled")]
    /\ UNCHANGED <<utilVars, watch, res, err, doneMu, invoked, hArg, settles, regLog, invLog, resolveHist>>

\* ----------------------------------------------------------- Resolve (73-80)
\* mutation of ResolveResult: notDone is not looked at
ResolveIgnoresNotDone(nd, r, e) == [nil |-> FALSE, v |-> r, e |-> e]

\* promise.go:76-79  nil while notDone, else the stored pair
ResolveResult(nd, r, e) ==
    IF nd THEN [nil |-> TRUE, v |-> ZeroVal, e |-> NilErr]
          ELSE [nil |-> FALSE, v |-> r, e |-> e]

\* the function behind promise p (given to NewFn, Then or Catch) has returned
ProducerReturned(p) == ~CallAt(p, "f") /\ ~CallAt(p, "fRun")

\* promise.go:75-79  read the state, deferred p.lock.Unlock(), return
ResolveRead(t) ==
    /\ IsApi(t, "Resolve", "body")
    /\ LET p == Top(t).p
           out == ResolveResult(notDone[p], res[p], err[p])
       IN  /\ seen' = IF out.nil THEN seen ELSE seen \cup {<<out.v, out.e>>}
           /\ nSeen' = IF out.nil \/ nSeen = 2 THEN nSeen ELSE nSeen + 1
           /\ nilSeen' = (nilSeen \/ out.nil)
           /\ earlyPair' = (earlyPair \/ (~out.nil /\ ~ProducerReturned(p)))
           /\ lateNil' = (lateNil \/ (out.nil /\ Top(t).d = 1))
           /\ lock' = [lock EXCEPT ![p] = NoTask]
    /\ stack' = Pop(t)
    /\ UNCHANGED <<utilVars, watch, nAlloc, promiseVars, doneMu, made, invoked, hArg, settles,
                   regLog, invLog>>

\* ------------------------------------------------------------ specification
\* one step of task t
Step(t) ==
    \/ CallProducer(t) \/ DoneSkip(t) \/ DoneStart(t) \/ HandlerReturn(t)
    \/ CallLock(t) \/ CallSettle(t) \/ CallInvoke(t) \/ CallInvokePass(t) \/ CallReturn(t)
    \/ \E f \in Fns : ThenRegister(t, f)
    \/ \E f \in Fns : ThenDone(t, f)
    \/ \E f \in Fns : CatchRegister(t, f)
    \/ \E f \in Fns : CatchPass(t, f)
    \/ \E f \in Fns : CatchSpawn(t, f)
    \/ ResolveRead(t)

Next ==
    \/ \E p \in CorePIDs : CallThen(p)
    \/ \E p \in CorePIDs : CallCatch(p)
    \/ \E p \in CorePIDs : CallResolve(p)
    \/ \E t \in CoreTasks : Step(t)

Spec == Init /\ [][Next]_vars

\* sync.Mutex hands a lock to a goroutine that has waited for it (starvation mode), so
\* a task whose step is enabled again and again takes it
FairLockSpec == Spec /\ \A t \in CoreTasks : SF_vars(Step(t))

\* ------------------------------------------- batch combinators: common parts
\* the closures All, Race and the function of Iterator hand to Then and to Catch
AllFns == {"allThen", "allCatch"}
RaceFns == {"raceThen", "raceCatch"}
IterFns == {"iterThen", "iterCatch"}
NoPromises == "no promises specified"

\* a frame of All, of a function All starts with wg.Go, of Race, or of the function
\* Iterator returns: i is the index into promises, val and err are what the frame has
\* got so far, base the number of promises constructed when the call began
UtilFrame(op, pc, i) ==
    [op |-> op, pc |-> pc, i |-> i, val |-> ZeroVal, err |-> NilErr, base |-> 0]
UtilOps == {"worker", "Race", "Iter"}

\* the error of the rejected promise at position i
ErrOf(i) == IF i = 1 THEN "e1" ELSE "e2"

\* the ways promises[i] is constructed: pending with a function that returns i, or an
\* error next to i; already resolved with i; already rejected
RootsAt(i) ==
    {NewFn(i, NilErr), NewFn(i, ErrOf(i)), NewResolved(i), NewRejected(ErrOf(i))}

\* the argument lists: n different promises, or one promise at every position
InputLists == {[i \in 1..n |-> i] : n \in 0..MaxInputs} \cup {[i \in 1..MaxInputs |-> 1]}
Distinct(ins) == {ins[i] : i \in 1..Len(ins)}

\* the state in which the main task calls a batch combinator (frame fr) on the
\* promises ins, promise p constructed as rs[p]; ws are the frames of the other tasks
InitUtil(fr, ins, rs, ws, rz) ==
    /\ watch = 0
    /\ nAlloc = Cardinality(Distinct(ins))
    /\ notDone = [p \in UtilPIDs |-> p \in Distinct(ins) /\ rs[p].fields.notDone]
    /\ res = [p \in UtilPIDs |-> IF p \in Distinct(ins) THEN rs[p].fields.res ELSE ZeroVal]
    /\ err = [p \in UtilPIDs |-> IF p \in Distinct(ins) THEN rs[p].fields.err ELSE NilErr]
    /\ thenList = [p \in UtilPIDs |-> IF p \in Distinct(ins) THEN rs[p].fields.lists ELSE NilList]
    /\ errorList = [p \in UtilPIDs |-> IF p \in Distinct(ins) THEN rs[p].fields.lists ELSE NilList]
    /\ lock = [p \in UtilPIDs |-> NoTask]
    /\ doneMu = [p \in UtilPIDs |-> NoTask]
    /\ stack = [t \in UtilTasks |->
                  IF t = Main THEN <<fr>>
                  ELSE IF t \in Distinct(ins) /\ rs[t].kind = "NewFn"
                       THEN <<CallFrame(t, "producer", "", 0, rs[t].v, rs[t].e)>>
                  ELSE IF t \in Workers THEN ws[t]
                  ELSE <<>>]
    /\ made = [p \in UtilPIDs |->
                 IF p \in Distinct(ins)
                 THEN [NoMade EXCEPT !.kind = rs[p].kind, !.v = rs[p].v, !.e = rs[p].e]
                 ELSE NoMade]
    /\ invoked = [p \in UtilPIDs |-> 0]
    /\ hArg = [p \in UtilPIDs |-> <<ZeroVal, NilErr>>]
    /\ settles = [p \in UtilPIDs |-> 0]
    /\ regLog = [p \in UtilPIDs |-> <<>>]
    /\ invLog = [p \in UtilPIDs |-> <<>>]
    /\ seen = {}
    /\ nSeen = 0
    /\ nilSeen = FALSE
    /\ earlyPair = FALSE
    /\ lateNil = FALSE
    /\ inputs = ins
    /\ results = rz
    /\ done = 0
    /\ wgErr = NilErr
    /\ ret = <<>>
    /\ won = {}
    /\ sent = {}

\* the constructions of the promises of the argument list ins
RootChoices(ins) == {rs \in [Distinct(ins) -> UNION {RootsAt(i) : i \in 1..MaxInputs}] :
                        \A p \in Distinct(ins) : rs[p] \in RootsAt(p)}

\* the frame under the top frame of task t: the caller of Then, Catch or Resolve
Hooked(t) == Len(stack[t]) >= 2 /\ stack[t][Len(stack[t]) - 1].op \in UtilOps
Below(t) == stack[t][Len(stack[t]) - 1]
IsUtil(t, op, pc) == HasTop(t) /\ Top(t).op = op /\ Top(t).pc = pc

\* the closure the caller hands to Then (th = TRUE) or to Catch
HookFn(op, th) ==
    IF op = "worker" THEN (IF th THEN "allThen" ELSE "allCatch")
    ELSE IF op = "Race" THEN (IF th THEN "raceThen" ELSE "raceCatch")
    ELSE (IF th THEN "iterThen" ELSE "iterCatch")

\* where the caller continues when Catch has returned: the next promise of Race's
\* loop (56), or the channel receive (33, 73, 108)
AfterCatch(fr) ==
    IF fr.op = "Race" /\ fr.i < Len(inputs) THEN [fr EXCEPT !.pc = "then", !.i = fr.i + 1]
    ELSE [fr EXCEPT !.pc = "recv"]

\* promise_utils.go:24, 57, 98  the caller calls Then(p, closure): p.lock.Lock()
HookThen(t) ==
    /\ HasTop(t) /\ Top(t).op \in UtilOps /\ Top(t).pc = "then"
    /\ Top(t).i <= Len(inputs) /\ lock[inputs[Top(t).i]] = NoTask
    /\ lock' = [lock EXCEPT ![inputs[Top(t).i]] = t]
    /\ stack' = ReplaceTopAndPush(t, [Top(t) EXCEPT !.pc = "catch"],
                                  ApiFrame("Then", inputs[Top(t).i]))
    /\ UNCHANGED <<utilVars, watch, nAlloc, promiseVars, doneMu, histVars>>

\* promise_utils.go:29, 65, 103  the caller calls Catch(p, closure): p.lock.Lock()
HookCatch(t) ==
    /\ HasTop(t) /\ Top(t).op \in UtilOps /\ Top(t).pc = "catch"
    /\ lock[inputs[Top(t).i]] = NoTask
    /\ lock' = [lock EXCEPT ![inputs[Top(t).i]] = t]
    /\ stack' = ReplaceTopAndPush(t, AfterCatch(Top(t)), ApiFrame("Catch", inputs[Top(t).i]))
    /\ UNCHANGED <<utilVars, watch, nAlloc, promiseVars, doneMu, histVars>>

\* the bodies of Then and Catch, called with the closures of a batch combinator
HookThenRegister(t) == Hooked(t) /\ ThenRegister(t, HookFn(Below(t).op, TRUE))
HookThenDone(t) == Hooked(t) /\ ThenDone(t, HookFn(Below(t).op, TRUE))
HookCatchRegister(t) == Hooked(t) /\ CatchRegister(t, HookFn(Below(t).op, FALSE))
HookCatchPass(t) == Hooked(t) /\ CatchPass(t, HookFn(Below(t).op, FALSE))
HookCatchSpawn(t) == Hooked(t) /\ CatchSpawn(t, HookFn(Below(t).op, FALSE))

\* ------------------------------------- the closures of the batch combinators
\* mutation of SentValue: every closure sends nil
SentNil(f, e) == NilErr

\* what a closure sends on its channel: nil from Then's, the error from Catch's
\* (promise_utils.go:26, 30, 62, 69; the function of Iterator sends struct{}{})
SentValue(f, e) == IF f \in {"allThen", "raceThen", "iterThen"} THEN NilErr ELSE e

\* the closure's frame once it has returned struct{}{}, nil (27, 31, 59, 63, 67, 70,
\* 101, 106), and doneMu once the deferred Unlock of promise.go:144 / 200 has run
ClosureReturned(fr) == [fr EXCEPT !.res = ZeroVal, !.err = NilErr, !.pc = "lock"]
ClosureReleased(fr) ==
    IF fr.ck \in {"thenDone", "catchDone"} /\ NeedsDoneMu(fr.ck)
    THEN [doneMu EXCEPT ![fr.src] = NoTask] ELSE doneMu

\* closure d is about to send on the channel task r receives from: r called Then /
\* Catch with it, in the call in which the channel was made
SendsTo(s, r) ==
    /\ \/ IsCall(s, "fRun") /\ Top(s).f \in AllFns \cup IterFns
       \/ IsCall(s, "send")
    /\ made[Top(s).p].by = r /\ Top(s).p > Top(r).base

\* the stack once closure s has sent to r, r has received, and r's frame is rf (gone
\* when rf is <<>>): the send on the unbuffered channel completes with the receive
Rendezvous(s, r, rf) ==
    [stack EXCEPT ![s] = [@ EXCEPT ![Len(@)] = ClosureReturned(Top(s))],
                  ![r] = SubSeq(@, 1, Len(@) - 1) \o rf]

\* ------------------------------------------------ All (promise_utils.go:11-39)
\* mutation of SlotWritten: every closure writes results[0]
SlotFirst(f, i) == IF f = "allThen" THEN 1 ELSE 0

\* promise_utils.go:20, 25  ptr := &results[i]; *ptr = res: the slot allThen writes
SlotWritten(f, i) == IF f = "allThen" THEN i ELSE 0

\* mutation of ErrOnce: the last error is kept
ErrLast(first, e) == IF e # NilErr THEN e ELSE first

\* errgroup.Group: the first non-nil error returned by a function of wg.Go is kept
ErrOnce(first, e) == IF first = NilErr THEN e ELSE first

\* promise_utils.go:25-27, 30-31, 33-34  a closure writes its slot and sends, the
\* function started by wg.Go receives and returns what it received; the closure returns
WorkerRecv(r) ==
    /\ IsUtil(r, "worker", "recv")
    /\ \E s \in Tasks :
          /\ SendsTo(s, r)
          /\ LET fr == Top(s)
                 slot == SlotWritten(fr.f, Top(r).i)
             IN  /\ results' = IF slot # 0 THEN [results EXCEPT ![slot] = fr.v] ELSE results
                 /\ wgErr' = ErrOnce(wgErr, SentValue(fr.f, fr.e))
                 /\ stack' = Rendezvous(s, r, <<>>)
                 /\ doneMu' = ClosureReleased(fr)
                 /\ sent' = sent \cup {fr.p}
    /\ UNCHANGED <<inputs, done, ret, won, watch, nAlloc, promiseVars, lock, made,
                   invoked, hArg, settles, regLog, invLog, resolveHist>>

\* mutation of WaitOver: Wait returns as soon as an error has been returned
WaitOverOnError == wgErr # NilErr \/ \A w \in Workers : stack[w] = <<>>

\* errgroup.Group.Wait: every function started with wg.Go has returned
WaitOver == \A w \in Workers : stack[w] = <<>>

\* promise_utils.go:38  return results, wg.Wait()
AllWait(t) ==
    /\ IsUtil(t, "All", "wait") /\ WaitOver
    /\ ret' = Append(ret, [val |-> results, end |-> FALSE, err |-> wgErr])
    /\ stack' = Pop(t)
    /\ UNCHANGED <<inputs, results, done, wgErr, won, sent, watch, nAlloc, promiseVars, lock,
                   doneMu, histVars>>

\* promise_utils.go:19-35  one function started with wg.Go per position of promises
WorkerFrames(ins) ==
    [w \in Workers |-> IF \E i \in 1..Len(ins) : w = Worker(i)
                       THEN <<UtilFrame("worker", "then", CHOOSE i \in 1..Len(ins) : w = Worker(i))>>
                       ELSE <<>>]
NoWorkers == [w \in Workers |-> <<>>]

\* promise_utils.go:11-35  All(promises...) has started its functions and waits
InitAll ==
    \E ins \in InputLists : \E rs \in RootChoices(ins) :
        InitUtil(UtilFrame("All", "wait", 0), ins, rs, WorkerFrames(ins),
                 [i \in 1..Len(ins) |-> ZeroVal])

\* the steps of Promise.call, Then and Catch every batch combinator goes through
StepHooks(t) ==
    \/ CallProducer(t) \/ DoneSkip(t) \/ DoneStart(t)
    \/ CallLock(t) \/ CallSettle(t) \/ CallInvoke(t) \/ CallInvokePass(t) \/ CallReturn(t)
    \/ HookThen(t) \/ HookCatch(t)
    \/ HookThenRegister(t) \/ HookThenDone(t)
    \/ HookCatchRegister(t) \/ HookCatchPass(t) \/ HookCatchSpawn(t)

StepAll(t) == StepHooks(t) \/ WorkerRecv(t) \/ AllWait(t)
NextAll == \E t \in UtilTasks : StepAll(t)
SpecAll == InitAll /\ [][NextAll]_vars

\* while some goroutine can run, one of them does: the least the Go scheduler ensures
FairSpecAll == SpecAll /\ WF_vars(NextAll)

\* ---------------------------------------------- Race (promise_utils.go:45-74)
\* mutation of RaceNone: no error for an empty argument list
RaceNoneNil == [val |-> ZeroVal, end |-> FALSE, err |-> NilErr]

\* promise_utils.go:48-49  var x T; return x, NoPromises
RaceNone == [val |-> ZeroVal, end |-> FALSE, err |-> NoPromises]

\* promise_utils.go:47-50  if len(promises) == 0
RaceEmpty(t) ==
    /\ IsUtil(t, "Race", "then") /\ Len(inputs) = 0
    /\ ret' = Append(ret, RaceNone)
    /\ stack' = Pop(t)
    /\ UNCHANGED <<inputs, results, done, wgErr, won, sent, watch, nAlloc, promiseVars, lock,
                   doneMu, histVars>>

\* mutation of Swap: the flag is loaded, not exchanged
SwapNoStore(d) == [old |-> d, new |-> d]

\* mutation of Swap: the flag is stored without looking at its old value
SwapBlind(d) == [old |-> 0, new |-> 1]

\* promise_utils.go:58, 66  atomic.SwapUintptr(&done, 1)
Swap(d) == [old |-> d, new |-> 1]

IsRaceFn(t) == IsCall(t, "fRun") /\ Top(t).f \in RaceFns

\* promise_utils.go:58-60, 66-68  the exchange returns 1: return struct{}{}, nil
RaceLose(t) ==
    /\ IsRaceFn(t) /\ Swap(done).old = 1
    /\ done' = Swap(done).new
    /\ stack' = SetTop(t, ClosureReturned(Top(t)))
    /\ doneMu' = ClosureReleased(Top(t))
    /\ UNCHANGED <<inputs, results, wgErr, ret, won, sent, watch, nAlloc, promiseVars, lock,
                   histVars>>

\* promise_utils.go:58, 61 / 66  the exchange returns 0: res = innerRes (Then's
\* closure); the closure goes on to send
RaceWin(t) ==
    /\ IsRaceFn(t) /\ Swap(done).old # 1
    /\ done' = Swap(done).new
    /\ results' = IF Top(t).f = "raceThen" THEN <<Top(t).v>> ELSE results
    /\ won' = won \cup {Top(t).p}
    /\ stack' = SetTop(t, [Top(t) EXCEPT !.pc = "send"])
    /\ UNCHANGED <<inputs, wgErr, ret, sent, watch, nAlloc, promiseVars, lock, doneMu,
                   histVars>>

\* promise_utils.go:62-63, 69-70, 73  the closure sends, Race receives and returns res
\* and what it received (the compiler loads res after the receive); the closure returns
RaceRecv(r) ==
    /\ IsUtil(r, "Race", "recv")
    /\ \E s \in Tasks :
          /\ SendsTo(s, r)
          /\ ret' = Append(ret, [val |-> results[1], end |-> FALSE,
                                 err |-> SentValue(Top(s).f, Top(s).e)])
          /\ stack' = Rendezvous(s, r, <<>>)
          /\ doneMu' = ClosureReleased(Top(s))
          /\ sent' = sent \cup {Top(s).p}
    /\ UNCHANGED <<inputs, results, done, wgErr, won, watch, nAlloc, promiseVars, lock, made,
                   invoked, hArg, settles, regLog, invLog, resolveHist>>

\* promise_utils.go:45-55  Race(promises...) is called
InitRace ==
    \E ins \in InputLists : \E rs \in RootChoices(ins) :
        InitUtil(UtilFrame("Race", "then", 1), ins, rs, NoWorkers, <<ZeroVal>>)

StepRace(t) == StepHooks(t) \/ RaceEmpty(t) \/ RaceLose(t) \/ RaceWin(t) \/ RaceRecv(t)
NextRace == \E t \in UtilTasks : StepRace(t)
SpecRace == InitRace /\ [][NextRace]_vars

\* while some goroutine can run, one of them does
FairSpecRace == SpecRace /\ WF_vars(NextRace)

\* ------------------------------------------ Iterator (promise_utils.go:78-111)
\* what one call of the function returned by Iterator returns
Yield(v, end, e) == [val |-> v, end |-> end, err |-> e]

\* mutation of Exhausted: the last promise is taken for the end
ExhaustedEarly(index, n) == index + 1 >= n

\* promise_utils.go:81  if index == len(promises)
Exhausted(index, n) == index = n

\* promise_utils.go:81-85  end = true; return
IterEnd(t) ==
    /\ IsUtil(t, "Iter", "next") /\ Len(ret) < Len(inputs) + MaxExtraCalls
    /\ Exhausted(Top(t).i, Len(inputs))
    /\ ret' = Append(ret, Yield(ZeroVal, TRUE, NilErr))
    /\ UNCHANGED <<inputs, results, done, wgErr, won, sent, watch, nAlloc, promiseVars, lock,
                   doneMu, stack, histVars>>

\* promise_utils.go:88-89  p := promises[index]; index++ (the model counts from 1)
Advance(index) == index + 1

\* promise_utils.go:88-92, promise.go:74  the next promise is taken and p.Resolve() is
\* called: p.lock.Lock()
IterCallResolve(t) ==
    /\ IsUtil(t, "Iter", "next") /\ ~Exhausted(Top(t).i, Len(inputs))
    /\ Len(ret) < Len(inputs) + MaxExtraCalls
    /\ LET p == inputs[Advance(Top(t).i)]
       IN  /\ lock[p] = NoTask
           /\ lock' = [lock EXCEPT ![p] = t]
           /\ stack' = ReplaceTopAndPush(t,
                  [Top(t) EXCEPT !.i = Advance(@), !.pc = "fast", !.base = nAlloc],
                  ApiFrame("Resolve", p))
    /\ UNCHANGED <<utilVars, watch, nAlloc, promiseVars, doneMu, histVars>>

\* mutation of FastPath: the result of Resolve is returned without the nil test
FastPathAlways(out) == TRUE

\* promise_utils.go:92  if res := p.Resolve(); res != nil
FastPath(out) == ~out.nil

\* the stack once Resolve has returned to the function of Iterator, which goes on at pc
Resumed(t, pc) ==
    [stack EXCEPT ![t] = SubSeq(@, 1, Len(@) - 2) \o <<[Below(t) EXCEPT !.pc = pc]>>]

\* promise.go:75-79, promise_utils.go:92-94  Resolve returns a pair: the fast path
\* returns res.Result, false, res.Error
IterFast(t) ==
    /\ IsApi(t, "Resolve", "body") /\ Hooked(t)
    /\ LET p == Top(t).p
           out == ResolveResult(notDone[p], res[p], err[p])
       IN  /\ FastPath(out)
           /\ ret' = Append(ret, Yield(out.v, FALSE, out.e))
           /\ lock' = [lock EXCEPT ![p] = NoTask]
           /\ stack' = Resumed(t, "next")
    /\ UNCHANGED <<inputs, results, done, wgErr, won, sent, watch, nAlloc, promiseVars,
                   doneMu, histVars>>

\* promise.go:75-79, promise_utils.go:92, 97  Resolve returns nil: the hook path
\* begins with waitCh := make(chan struct{})
IterSlow(t) ==
    /\ IsApi(t, "Resolve", "body") /\ Hooked(t)
    /\ LET p == Top(t).p
       IN  /\ ~FastPath(ResolveResult(notDone[p], res[p], err[p]))
           /\ lock' = [lock EXCEPT ![p] = NoTask]
           /\ stack' = Resumed(t, "then")
    /\ UNCHANGED <<utilVars, watch, nAlloc, promiseVars, doneMu, histVars>>

\* promise_utils.go:99-101, 104-106, 108-109  a closure writes val or err and sends,
\* the function receives and returns val, false, err; the closure returns
IterRecv(r) ==
    /\ IsUtil(r, "Iter", "recv")
    /\ \E s \in Tasks :
          /\ SendsTo(s, r)
          /\ ret' = Append(ret, Yield(IF Top(s).f = "iterThen" THEN Top(s).v ELSE ZeroVal,
                                      FALSE,
                                      IF Top(s).f = "iterCatch" THEN Top(s).e ELSE NilErr))
          /\ stack' = Rendezvous(s, r, <<[Top(r) EXCEPT !.pc = "next"]>>)
          /\ doneMu' = ClosureReleased(Top(s))
          /\ sent' = sent \cup {Top(s).p}
    /\ UNCHANGED <<inputs, results, done, wgErr, won, watch, nAlloc, promiseVars, lock, made,
                   invoked, hArg, settles, regLog, invLog, resolveHist>>

\* promise_utils.go:78-80  Iterator(promises...) has returned its function: index = 0
InitIter ==
    \E ins \in InputLists : \E rs \in RootChoices(ins) :
        InitUtil(UtilFrame("Iter", "next", 0), ins, rs, NoWorkers, <<>>)

StepIter(t) ==
    \/ StepHooks(t)
    \/ IterEnd(t) \/ IterCallResolve(t) \/ IterFast(t) \/ IterSlow(t) \/ IterRecv(t)
NextIter == \E t \in UtilTasks : StepIter(t)
SpecIter == InitIter /\ [][NextIter]_vars

\* ------------------------------------------------------------- vocabulary
Allocated == 1..nAlloc
Settled(p) == p \in Allocated /\ ~notDone[p]
Succeeded(p) == Settled(p) /\ err[p] = NilErr
Failed(p) == Settled(p) /\ err[p] # NilErr
DerivedBy(kind) == {d \in Allocated : made[d].kind = kind}

\* no call is in progress in any task
Quiet == \A t \in Tasks : stack[t] = <<>>

\* some call is in progress and no task can take a step
Stuck == ~Quiet /\ \A t \in Tasks : ~ENABLED Step(t)

\* some task is inside d.call(...)
CallActive(d) ==
    \E t \in Tasks : \E i \in 1..Len(stack[t]) : stack[t][i].op = "call" /\ stack[t][i].p = d

\* the settlement pass of p has walked its whole queue and returned
PassOver(p) == Settled(p) /\ ~CallActive(p)

\* the tasks that are inside a user function attached to p
Running(p) ==
    {t \in Tasks : \E i \in 1..Len(stack[t]) :
        stack[t][i].op = "call" /\ stack[t][i].pc = "fRun" /\ stack[t][i].src = p}

RECURSIVE OnlyThen(_)
\* the registrations that queued a success handler
OnlyThen(log) ==
    IF log = <<>> THEN <<>>
    ELSE IF Head(log)[2] = "Then" THEN <<Head(log)>> \o OnlyThen(Tail(log))
    ELSE OnlyThen(Tail(log))

\* the promises whose handlers the pass of p has to call, in registration order
Expected(p) ==
    LET log == IF err[p] # NilErr THEN regLog[p] ELSE OnlyThen(regLog[p])
    IN  [i \in 1..Len(log) |-> log[i][1]]

Started(p) == [i \in 1..Len(invLog[p]) |-> invLog[p][i][1]]


\* ------------------------------------------------------------------ claims

\* C1: a promise is settled at most once and stays settled with the same pair, and
\* all the pairs Resolve has returned for one promise are the same pair.
SettleOnce ==
    /\ [](\A p \in PIDs :
            /\ settles[p] <= 1
            /\ Cardinality(seen) <= 1
            /\ made[p].kind \in {"NewResolved", "NewRejected", "Zero"}
                  => settles[p] = 0 /\ ~notDone[p])
    /\ [][\A p \in PIDs :
            (p <= nAlloc /\ ~notDone[p])
               => (~notDone'[p] /\ res'[p] = res[p] /\ err'[p] = err[p])]_vars

\* C1 witness: Resolve has returned a pair twice for a promise derived by Then
SettleOnceWitness ==
    \E d \in DerivedBy("Then") : watch = d /\ nSeen = 2 /\ settles[d] = 1

\* C2: Resolve never returned a pair while the function behind the promise had not
\* returned, never returned nil for a promise that was settled when it was called,
\* and for a promise of NewFn(f) the pair returned is the pair f returned; while f
\* runs the promise is pending.
ResolveNilWhilePending ==
    /\ ~earlyPair
    /\ ~lateNil
    /\ \A p \in DerivedBy("NewFn") :
          /\ watch = p => seen \subseteq {<<made[p].v, made[p].e>>}
          /\ CallAt(p, "f") => notDone[p]
          /\ Settled(p) => <<res[p], err[p]>> = <<made[p].v, made[p].e>>

\* C2 witness: for one promise of NewFn, Resolve returned nil and later the pair
\* of a function that returned a value next to an error
ResolveNilWitness ==
    \E p \in DerivedBy("NewFn") : watch = p /\ nilSeen /\ seen = {<<2, "e1">>}

\* C3: the pass of a promise starts the queued handlers of the matching branch in
\* registration order, hands each the settled value and error, starts a handler only
\* when the one before it has returned, and has started all of them when it returns.
FifoOrder ==
    \A p \in PIDs :
        /\ invLog[p] # <<>> => Settled(p)
        /\ Len(Started(p)) <= Len(Expected(p))
        /\ \A i \in 1..Len(Started(p)) : Started(p)[i] = Expected(p)[i]
        /\ \A i \in 1..Len(invLog[p]) :
              /\ invLog[p][i][2] = res[p] /\ invLog[p][i][3] = err[p]
              /\ invoked[invLog[p][i][1]] > 0
                    => hArg[invLog[p][i][1]] =
                          IF err[p] = NilErr THEN <<res[p], NilErr>> ELSE <<ZeroVal, err[p]>>
              /\ i < Len(invLog[p]) => ~CallActive(invLog[p][i][1])
        /\ PassOver(p) => Started(p) = Expected(p)

\* C3 witness: a pass has started two queued handlers and returned
FifoOrderWitness ==
    \E p \in PIDs : PassOver(p) /\ Len(invLog[p]) = 2 /\ invoked[invLog[p][2][1]] = 1

\* C4: a function given to Then is entered only if the source succeeded, a function
\* given to Catch only if the source failed.
BranchExclusive ==
    \A d \in PIDs :
        invoked[d] > 0 =>
            /\ made[d].kind = "Then" => Succeeded(made[d].src)
            /\ made[d].kind = "Catch" => Failed(made[d].src)
            /\ made[d].kind \in {"Then", "Catch"}

\* C4 witness: Catch was called before and after the source succeeded, everything
\* has run, and neither function was entered
BranchExclusiveWitness ==
    /\ Quiet
    /\ \E d1, d2 \in DerivedBy("Catch") :
          /\ made[d1].src = made[d2].src /\ Succeeded(made[d1].src)
          /\ made[d1].path = "pending" /\ made[d2].path = "settled"
          /\ invoked[d1] = 0 /\ invoked[d2] = 0

\* C5: when the source of Then(p, f) failed with e, f is not entered, the derived
\* promise is never settled with anything but e, and it is settled with e once
\* every task has run; no state is stuck.
ChainPropagation ==
    /\ ~Stuck
    /\ \A d \in DerivedBy("Then") :
          Failed(made[d].src) =>
              /\ invoked[d] = 0
              /\ Settled(d) => err[d] = err[made[d].src]
              /\ Quiet => Settled(d)

\* C5 witness: Then was called before and after the source failed and both derived
\* promises are settled
ChainPropagationWitness ==
    /\ Quiet
    /\ \E d1, d2 \in DerivedBy("Then") :
          /\ made[d1].src = made[d2].src /\ Failed(made[d1].src)
          /\ made[d1].path = "pending" /\ made[d2].path = "settled"
          /\ err[d1] = "e1" /\ err[d2] = "e1"

\* C6: when the source of Catch(p, f) succeeded, f is not entered and the derived
\* promise is settled with the zero value and no error once every task has run.
CatchPassthrough ==
    \A d \in DerivedBy("Catch") :
        Succeeded(made[d].src) =>
            /\ invoked[d] = 0
            /\ Quiet => (Settled(d) /\ res[d] = ZeroVal /\ err[d] = NilErr)

\* C7: when the source of Then(p, f) succeeded with v, f is entered at most once and
\* with v, the derived promise is settled at most once and with the pair f(v), and it
\* is settled once every task has run (so a Then chained on it is served in turn);
\* no state is stuck.
ThenOnSuccess ==
    /\ ~Stuck
    /\ \A d \in DerivedBy("Then") :
          Succeeded(made[d].src) =>
              /\ invoked[d] <= 1 /\ settles[d] <= 1
              /\ invoked[d] = 1 => hArg[d] = <<res[made[d].src], NilErr>>
              /\ Settled(d) => /\ invoked[d] = 1
                               /\ <<res[d], err[d]>> = ApplyThen(made[d].f, res[made[d].src])
              /\ Quiet => Settled(d) /\ settles[d] = 1

\* C7 witness: a Then chained on the derived promise of a Then has been served, and
\* another derived promise failed with the error of its function
ThenOnSuccessWitness ==
    /\ Quiet
    /\ \E d, d2 \in DerivedBy("Then") :
          /\ made[d2].src = d /\ Succeeded(d)
          /\ invoked[d2] = 1 /\ hArg[d2] = <<res[d], NilErr>>
          /\ made[d2].f = "fail" /\ err[d2] = "e2"

\* C8: when the source of Catch(p, f) failed with e, f is entered at most once and
\* with e, the derived promise is settled at most once and with the pair f(e), and
\* once every task has run f was entered exactly once and the derived promise is
\* settled; no state is stuck.
CatchOnFailure ==
    /\ ~Stuck
    /\ \A d \in DerivedBy("Catch") :
          Failed(made[d].src) =>
              /\ invoked[d] <= 1 /\ settles[d] <= 1
              /\ invoked[d] = 1 => hArg[d] = <<ZeroVal, err[made[d].src]>>
              /\ Settled(d) => /\ invoked[d] = 1
                               /\ <<res[d], err[d]>> = ApplyCatch(made[d].f, err[made[d].src])
              /\ Quiet => Settled(d) /\ settles[d] = 1 /\ invoked[d] = 1

\* C8 witness: Catch was called on a failed source while it was pending, its function
\* recovered, and a Then chained on the derived promise has run
CatchOnFailureWitness ==
    /\ Quiet
    /\ \E d \in DerivedBy("Catch"), d2 \in DerivedBy("Then") :
          /\ made[d2].src = d /\ Failed(made[d].src) /\ made[d].path = "pending"
          /\ res[d] = 1 /\ err[d] = NilErr
          /\ invoked[d2] = 1 /\ hArg[d2] = <<1, NilErr>>

\* C9: at most one task at a time is inside a user function attached to a promise,
\* and that task holds the promise's doneMu.
HandlerMutex ==
    \A p \in PIDs :
        /\ Cardinality(Running(p)) <= 1
        /\ \A t \in Running(p) : doneMu[p] = t

\* C9 witness: a task is inside a handler of p while an already-settled dispatch task
\* of the same promise waits for p.doneMu
HandlerMutexWitness ==
    \E p \in PIDs, t1, t2 \in Tasks :
        /\ t1 # t2 /\ t1 \in Running(p)
        /\ IsCall(t2, "f") /\ Top(t2).ck \in {"thenDone", "catchDone"} /\ Top(t2).src = p
        /\ ~SkipsFn(Top(t2).ck, Top(t2).e)

\* the promises d for which the function given to Then or Catch has to run
Owed(d) ==
    \/ made[d].kind = "Then" /\ Succeeded(made[d].src)
    \/ made[d].kind = "Catch" /\ Failed(made[d].src)

\* C10: a Then or Catch call either queued its wrapper (and the pass of the source
\* calls it) or took the already-settled path (and its own task calls the function),
\* never both; the function is entered at most once, and exactly once when every
\* task has run and the source settled on the function's branch.
ExactlyOnce ==
    \A d \in DerivedBy("Then") \cup DerivedBy("Catch") :
        LET p == made[d].src
            queued == \E i \in 1..Len(regLog[p]) : regLog[p][i][1] = d
            passed == \E i \in 1..Len(invLog[p]) : invLog[p][i][1] = d
            own == \E i \in 1..Len(stack[d]) : stack[d][i].ck \in {"thenDone", "catchDone"}
        IN  /\ made[d].path = "pending" <=> queued
            /\ made[d].path = "pending" => ~own
            /\ made[d].path = "settled" => ~passed
            /\ invoked[d] <= 1
            /\ (Quiet /\ Owed(d)) => invoked[d] = 1

\* C10 witness: Then was inside its critical section while the function of the source
\* had returned and the pass waited for p.lock; the function given to Then has run once
ExactlyOnceWitness ==
    /\ Quiet
    /\ \E d \in DerivedBy("Then") : made[d].raced /\ Owed(d) /\ invoked[d] = 1

\* ------------------------------------------------- claims on All (SpecAll)
\* the positions of promises, and what the batch combinator returned
Positions == 1..Len(inputs)
Returned == ret # <<>>
AllWaiting == IsUtil(Main, "All", "wait")

\* C11: when All has returned and every input promise succeeded, the error is nil and
\* the sequence has one element per input, the i-th being the value of the i-th
\* promise; with no input it is the empty sequence with a nil error.
AllSuccess ==
    (Returned /\ \A i \in Positions : Succeeded(inputs[i])) =>
        /\ Len(ret) = 1 /\ ret[1].err = NilErr
        /\ Len(ret[1].val) = Len(inputs)
        /\ \A i \in Positions : ret[1].val[i] = res[inputs[i]]

\* C11 witness: All returned <<1, 2>> for two promises that were pending when the
\* closures were registered
AllSuccessWitness ==
    /\ Returned /\ inputs = <<1, 2>> /\ ret[1].val = <<1, 2>> /\ ret[1].err = NilErr
    /\ made[1].kind = "NewFn" /\ made[2].kind = "NewFn"
    /\ regLog[1] # <<>> /\ regLog[2] # <<>>

\* C12: when All has returned, its error is non-nil exactly if some input promise is
\* rejected, it is the error of a rejected input, with one rejected input it is that
\* input's error; and the error All keeps is the first one returned to the aggregation.
AllFailure ==
    /\ [](Returned =>
            /\ ret[1].err # NilErr <=> \E i \in Positions : Failed(inputs[i])
            /\ ret[1].err # NilErr => \E i \in Positions : err[inputs[i]] = ret[1].err
            /\ ret[1].err = wgErr)
    /\ [][wgErr # NilErr => wgErr' = wgErr]_vars

\* C12 witness: of two rejected inputs, one rejected already and one later, All
\* returned the error of the second
AllFailureWitness ==
    /\ Returned /\ inputs = <<1, 2>> /\ ret[1].err = "e2"
    /\ made[1].kind = "NewRejected" /\ made[2].kind = "NewFn"
    /\ Failed(1) /\ Failed(2)

\* C13: once an input promise is known to be rejected, All returns at once: its
\* return does not wait for the input promises that are still pending.
AllReturnsAtOnce ==
    (AllWaiting /\ wgErr # NilErr) => ENABLED AllWait(Main)

Outcome(p) ==
    [val |-> IF err[p] = NilErr THEN res[p] ELSE ZeroVal, end |-> FALSE, err |-> err[p]]

\* the input promises that were settled when the batch combinator was called
SettledAtCall == {p \in Distinct(inputs) : made[p].kind \in {"NewResolved", "NewRejected"}}

\* C14: with no input promises Race can return at once, returns the zero value and
\* NoPromises, and constructs no promise and registers no handler.
RaceEmptyResult ==
    Len(inputs) = 0 =>
        /\ nAlloc = 0
        /\ ~Returned => ENABLED RaceEmpty(Main)
        /\ Returned => ret = <<[val |-> ZeroVal, end |-> FALSE, err |-> NoPromises]>>

\* C14 witness: Race has returned for the empty argument list
RaceEmptyWitness == Len(inputs) = 0 /\ Returned /\ ret[1].err = NoPromises

RaceAt(pc) == {t \in Tasks : IsCall(t, pc) /\ Top(t).f \in RaceFns}

\* C16: at most one notification gets 0 from the exchange; only that one writes res,
\* goes on to send and is received; every other one can return at once; and Race
\* returns the outcome of the promise whose notification won.
RaceSingleWinner ==
    /\ Cardinality(won) <= 1
    /\ sent \subseteq won
    /\ won = {} <=> done = 0
    /\ \A t \in RaceAt("send") : Top(t).p \in won
    /\ \A t \in RaceAt("fRun") : done = 1 => ENABLED RaceLose(t)
    /\ results # <<ZeroVal>> =>
          \E d \in won : made[d].kind = "Then" /\ results = <<res[made[d].src]>>
    /\ (Returned /\ Len(inputs) > 0) =>
          /\ sent = won
          /\ \E d \in won : ret[1] = Outcome(made[d].src)

\* C16 witness: Race has returned, and the closure of another notification was entered
\* after the exchange was won and has returned
RaceSingleWinnerWitness ==
    /\ Returned
    /\ \E d \in DerivedBy("Then") \cup DerivedBy("Catch") :
          d \notin won /\ invoked[d] = 1 /\ Settled(d)

\* -------------------------------------------- claims on Iterator (SpecIter)
IterAt(pc) == IsUtil(Main, "Iter", pc)
\* the frame of the function Iterator returned, under the calls it makes
IterFrame == stack[Main][1]

\* C17: the k-th call, k <= n, returned the outcome of the k-th promise (its value with
\* a nil error, or the zero value with its error) and end = false; every later call
\* returned end = true with the zero value and a nil error.
IterOrder ==
    \A k \in 1..Len(ret) :
        IF k <= Len(inputs) THEN ret[k] = Outcome(inputs[k])
                            ELSE ret[k] = Yield(ZeroVal, TRUE, NilErr)

\* C17, amended: as C17, but next to the error of a rejected promise the call returns
\* the zero value or, on the fast path, the value stored in the promise; between two
\* calls the index is the number of promises yielded.
IterOrderStored ==
    /\ \A k \in 1..Len(ret) :
          IF k <= Len(inputs)
          THEN Settled(inputs[k]) /\ ret[k] \in {Outcome(inputs[k]), Yield(res[inputs[k]], FALSE, err[inputs[k]])}
          ELSE ret[k] = Yield(ZeroVal, TRUE, NilErr)
    /\ IterFrame.pc = "next" => IterFrame.i = (IF Len(ret) < Len(inputs) THEN Len(ret) ELSE Len(inputs))
    /\ IterFrame.pc # "next" => IterFrame.i = Len(ret) + 1 /\ IterFrame.i <= Len(inputs)

\* C17 witness: the first promise was pending when it was asked for, the second one
\* rejected, and two calls after the last promise have returned end
IterOrderWitness ==
    /\ inputs = <<1, 2>> /\ Len(ret) = 4
    /\ made[1].kind = "NewFn" /\ regLog[1] # <<>> /\ ret[1] = Yield(1, FALSE, NilErr)
    /\ ret[2].err = "e2" /\ ret[3].end /\ ret[4].end

\* the promises derived by the calls of the function of Iterator, and the one derived
\* in the same call as d (Then's comes first)
Hooks == {d \in Allocated : made[d].kind \in {"Then", "Catch"}}
Twin(d) == IF made[d].kind = "Then" THEN d + 1 ELSE d - 1

\* C18: a call that finds its promise settled returns in its next step and constructs
\* no promise; no call has returned for a promise that is not settled; in a call on the
\* hook path at most one of the two closures is entered and sends, what it sent is the
\* outcome the call returned, and a call waiting on its channel is never stuck.
IterBlocking ==
    /\ \A k \in 1..Len(ret) : k <= Len(inputs) => Settled(inputs[k])
    /\ IterFrame.pc = "fast" => nAlloc = IterFrame.base
    /\ (IsApi(Main, "Resolve", "body") /\ Settled(Top(Main).p)) =>
          ENABLED IterFast(Main) /\ ~ENABLED IterSlow(Main)
    /\ \A d \in Hooks :
          /\ made[made[d].src].kind = "NewFn"
          /\ (Twin(d) \in Hooks /\ invoked[d] > 0) => invoked[Twin(d)] = 0 /\ invoked[d] = 1
          /\ invoked[d] > 0 => Settled(made[d].src)
          /\ d \in sent =>
                \E k \in 1..Len(ret) :
                    k <= Len(inputs) /\ inputs[k] = made[d].src /\ ret[k] = Outcome(inputs[k])
    /\ IterAt("recv") => ENABLED NextIter

\* C18 witness: a promise settled between the fast-path check and the call of Then,
\* and the call returned what the closure of Then sent
IterBlockingWitness ==
    \E d \in Hooks :
        /\ made[d].kind = "Then" /\ made[d].path = "settled" /\ d \in sent
        /\ IterAt("next") /\ ret[Len(ret)] = Outcome(made[d].src)

\* ------------------------------------- claims on the constructors (Spec)

\* the pair the constructor of p was asked to store
GivenPair(p) ==
    CASE made[p].kind = "NewResolved" -> <<made[p].v, NilErr>>
      [] made[p].kind = "NewRejected" -> <<ZeroVal, made[p].e>>
      [] OTHER -> <<ZeroVal, NilErr>>

\* C19: a promise of NewResolved(v), of NewRejected(e) or a zero Promise is settled
\* from its construction on with (v, nil), (zero, e) or (zero, nil); no task ever runs
\* call for it, Resolve returned nothing but that pair, and every Then and Catch on it
\* took the already-settled path and queued no handler.
SyncConstructors ==
    \A p \in {q \in Allocated : made[q].kind \in {"NewResolved", "NewRejected", "Zero"}} :
        /\ Settled(p) /\ <<res[p], err[p]>> = GivenPair(p)
        /\ settles[p] = 0 /\ invoked[p] = 0 /\ stack[p] = <<>> /\ ~CallActive(p)
        /\ watch = p => ~nilSeen /\ seen \subseteq {GivenPair(p)}
        /\ regLog[p] = <<>> /\ thenList[p].items = <<>> /\ errorList[p].items = <<>>
        /\ \A d \in Allocated : made[d].src = p => made[d].path = "settled"

\* C19 witness: Resolve returned (zero, e) for a promise of NewRejected(e), and Catch
\* on it ran f(e) on the already-settled path
SyncConstructorsWitness ==
    /\ made[1].kind = "NewRejected" /\ watch = 1 /\ seen = {<<ZeroVal, "e1">>}
    /\ \E d \in DerivedBy("Catch") :
          made[d].src = 1 /\ made[d].path = "settled" /\ invoked[d] = 1 /\ Settled(d)

\* ------------------------------------------ claims on Catch and the locks (Spec)
\* the promises derived from d by Then or Catch
ChainedOn(d) == {c \in Allocated : made[c].kind \in {"Then", "Catch"} /\ made[c].src = d}

\* C21: once the source of a Catch registered while the source was pending has settled
\* without error, the derived promise is pending in every later state, Resolve on it
\* returns nil, no task is in its call, and no handler chained on it has run or
\* settled its promise; a Catch called after the source settled without error has
\* returned a promise that is settled with (zero value, nil) and has no task.
CatchPendingOrphan ==
    \A d \in DerivedBy("Catch") :
        Succeeded(made[d].src) =>
            /\ made[d].path = "pending" =>
                  /\ notDone[d] /\ settles[d] = 0 /\ invoked[d] = 0 /\ ~CallActive(d)
                  /\ ResolveResult(notDone[d], res[d], err[d]).nil
                  /\ watch = d => seen = {}
                  /\ \A c \in ChainedOn(d) :
                        /\ made[c].path = "pending" /\ notDone[c]
                        /\ invoked[c] = 0 /\ settles[c] = 0 /\ ~CallActive(c)
            /\ made[d].path = "settled" =>
                  /\ Settled(d) /\ <<res[d], err[d]>> = <<ZeroVal, NilErr>>
                  /\ invoked[d] = 0 /\ stack[d] = <<>> /\ ~CallActive(d)

\* C21 witness: every task has run; the source succeeded after Catch was called, and
\* the Then chained on the promise of Catch is pending
CatchPendingOrphanWitness ==
    /\ Quiet /\ Succeeded(1) /\ made[1].kind = "NewFn"
    /\ made[2].kind = "Catch" /\ made[2].src = 1 /\ made[2].path = "pending" /\ notDone[2]
    /\ \E c \in ChainedOn(2) : made[c].kind = "Then" /\ notDone[c]

\* ------------------------------------------ claims on the state lock (SpecIter)
\* the state locks task t holds
Holds(t) == {p \in PIDs : lock[p] = t}

\* C22: the holder of a state lock is in a critical section of that promise, from
\* which its next step is enabled and releases the lock; a task that runs a producer
\* or a handler, waits for a settlement-execution lock or a channel, or has returned
\* from Resolve, Then or Catch holds no state lock; hence a call of Resolve that waits
\* for the lock waits for no user code.
LockDiscipline ==
    /\ \A p \in PIDs :
          lock[p] # NoTask =>
              /\ lock[p] \in Tasks
              /\ HasTop(lock[p]) /\ Top(lock[p]).p = p
              /\ \/ Top(lock[p]).op \in {"Resolve", "Then", "Catch"}
                    /\ Top(lock[p]).pc = "body"
                 \/ Top(lock[p]).op = "call" /\ Top(lock[p]).pc = "settle"
              /\ ENABLED StepIter(lock[p])
    /\ \A t \in Tasks :
          /\ (\/ IsCall(t, "f") \/ IsCall(t, "fRun") \/ IsCall(t, "doneMu")
              \/ IsCall(t, "loop")
              \/ IsUtil(t, "Iter", "recv") \/ IsUtil(t, "Iter", "next"))
                => Holds(t) = {}
          /\ stack[t] = <<>> => Holds(t) = {}
          /\ Cardinality(Holds(t)) <= 1

\* C22 witness: the call of promise 1 is in its critical section while the function
\* of Iterator waits on its channel for that promise
LockDisciplineWitness ==
    /\ lock[1] = 1 /\ IsCall(1, "settle") /\ IsUtil(Main, "Iter", "recv")
    /\ thenList[1].items # <<>>

\* --------------------------------------------- claims on the queues (Spec)
\* C23: a settled promise has both handler queues detached and empty, and no call of
\* Then or Catch appends a handler to a settled promise.
QueuesDetached ==
    /\ [](\A p \in Allocated :
            Settled(p) => thenList[p] = NilList /\ errorList[p] = NilList)
    /\ [][\A p \in PIDs :
            ~notDone[p] => /\ Len(thenList'[p].items) <= Len(thenList[p].items)
                           /\ Len(errorList'[p].items) <= Len(errorList[p].items)
                           /\ regLog'[p] = regLog[p]]_vars

\* the promise Catch returned for a source that had settled without error
\* (promise.go:166, 189-191: constructed with two new lists, then notDone = false)
BornSettled(p) ==
    made[p].kind = "Catch" /\ made[p].path = "settled" /\ err[made[p].src] = NilErr

\* C23, amended: a settled promise has both handler queues empty, and detached unless
\* it is the promise Catch returned for a source settled without error, whose queues
\* are new; no call of Then or Catch appends a handler to a settled promise.
QueuesEmptied ==
    /\ [](\A p \in Allocated :
            Settled(p) =>
                /\ thenList[p].items = <<>> /\ errorList[p].items = <<>>
                /\ ~BornSettled(p) => thenList[p] = NilList /\ errorList[p] = NilList
                /\ BornSettled(p) => thenList[p] = NewList /\ errorList[p] = NewList)
    /\ [][\A p \in PIDs :
            ~notDone[p] => /\ Len(thenList'[p].items) <= Len(thenList[p].items)
                           /\ Len(errorList'[p].items) <= Len(errorList[p].items)
                           /\ regLog'[p] = regLog[p]]_vars

\* C23 witness: a promise with a handler registered while it was pending has settled,
\* and a Catch called on it later has returned a settled promise
QueuesEmptiedWitness ==
    /\ Succeeded(1) /\ regLog[1] # <<>> /\ thenList[1] = NilList
    /\ \E d \in DerivedBy("Catch") : made[d].src = 1 /\ BornSettled(d) /\ Settled(d)

\* ------------------------------------- claims on late handlers (Spec)
\* the promises of the Then and Catch calls made after p had settled
Late(p) == {d \in ChainedOn(p) : made[d].path = "settled"}


\* the function behind d is running
FnRunning(d) == CallAt(d, "fRun")

\* every handler queued on the branch p settled on has been invoked and has returned
QueueDone(p) ==
    \A i \in 1..Len(Expected(p)) :
        /\ \E j \in 1..Len(invLog[p]) : invLog[p][j][1] = Expected(p)[i]
        /\ ~CallActive(Expected(p)[i])

\* C24: when the function of a Then or Catch called after p had settled has been
\* invoked, every handler queued on p, on the branch p settled on, has been invoked
\* and has returned.
LateAfterQueued ==
    \A p \in Allocated : \A g \in Late(p) : invoked[g] > 0 => QueueDone(p)

\* C24, amended: the function of a Then or Catch called after p had settled never runs
\* while a queued handler of p runs, and it is invoked either when every queued
\* handler has been invoked and has returned, or before the pass of p has taken
\* p.doneMu and invoked any queued handler.
LateSerialized ==
    /\ [](\A p \in Allocated : \A g \in Late(p) :
            FnRunning(g) => \A i \in 1..Len(Expected(p)) : ~FnRunning(Expected(p)[i]))
    /\ [][\A p \in Allocated : \A g \in Late(p) :
            invoked'[g] > invoked[g] =>
                \/ QueueDone(p)
                \/ invLog[p] = <<>> /\ ~CallAt(p, "loop")]_vars

\* C24 witness: the function of a late Then has been invoked and has returned while
\* the handler queued before it has not been invoked yet
LateSerializedWitness ==
    \E g \in Late(1) :
        /\ invoked[g] = 1 /\ ~FnRunning(g) /\ made[g].kind = "Then"
        /\ Expected(1) # <<>> /\ invLog[1] = <<>> /\ invoked[Expected(1)[1]] = 0

\* ------------------------------------- claims on deadlocks (FairLockSpec)
\* the frames of task t are calls nested source to derived: each call but the top one
\* is a pass that holds its doneMu and has called a handler settling a promise
\* derived from its own
SourceToDerived(t) ==
    \A i \in 1..(Len(stack[t]) - 1) :
        (stack[t][i].op = "call" /\ stack[t][i + 1].op = "call") =>
            /\ made[stack[t][i + 1].p].src = stack[t][i].p
            /\ stack[t][i].p < stack[t][i + 1].p
            /\ stack[t][i].pc = "loop" /\ doneMu[stack[t][i].p] = t

\* a closure of an already-settled path that is past its user function no longer
\* holds the doneMu of its source
DispatchReleased(t) ==
    \A i \in 1..Len(stack[t]) :
        (stack[t][i].ck \in {"thenDone", "catchDone"} /\ stack[t][i].pc # "fRun") =>
            doneMu[stack[t][i].src] # t

\* C25: no state with a call in progress is without an enabled step; calls nest
\* source to derived, the outer one holding only its doneMu; a dispatch task has
\* released the source's doneMu when it takes a lock of the derived promise; and
\* every task that is in a call leaves it.
NoDeadlock ==
    /\ [](~Stuck)
    /\ [](\A t \in Tasks : SourceToDerived(t) /\ DispatchReleased(t))
    /\ [](\A t \in Tasks : \A p \in PIDs : doneMu[p] = t => HasTop(t))
    /\ \A t \in CoreTasks : (stack[t] # <<>>) ~> (stack[t] = <<>>)

\* C25 witness: a pass holds the doneMu of promise 1 and, inside the call of a
\* derived promise, waits for the state lock of that promise, which the main task
\* holds in Then
NoDeadlockWitness ==
    /\ Len(stack[1]) = 2 /\ stack[1][1].pc = "loop" /\ IsCall(1, "lock")
    /\ doneMu[1] = 1 /\ lock[Top(1).p] = Main /\ IsApi(Main, "Then", "body")

\* ------------------------------------- claims on termination (FairSpecAll)
\* the promises Then and Catch returned to the function wg.Go started for position i
HooksOf(i) == {d \in Allocated : made[d].by = Worker(i)}
SentOf(i) == sent \cap HooksOf(i)
EnteredOf(i) == {d \in HooksOf(i) : invoked[d] > 0}

\* C26: at every position at most one of the two closures is entered, at most once,
\* and at most one send is received; in the end at every position exactly one closure
\* was entered and its send was received, no task is left in a call, and All has
\* returned.
AllTerminates ==
    /\ [](\A i \in Positions :
            /\ Cardinality(EnteredOf(i)) <= 1 /\ Cardinality(SentOf(i)) <= 1
            /\ \A d \in HooksOf(i) : invoked[d] <= 1
            /\ SentOf(i) \subseteq EnteredOf(i))
    /\ <>[](/\ Returned
            /\ \A t \in Tasks : stack[t] = <<>>
            /\ \A i \in Positions : Cardinality(SentOf(i)) = 1 /\ SentOf(i) = EnteredOf(i))

\* C26 witness: All has returned for one promise passed twice that settled between
\* the call of Then and the call of Catch at one position
AllTerminatesWitness ==
    /\ Returned /\ Len(inputs) = MaxInputs /\ Cardinality(Distinct(inputs)) = 1
    /\ \A t \in Tasks : stack[t] = <<>>
    /\ \E i \in Positions : \E dT, dC \in HooksOf(i) :
          /\ made[dT].kind = "Then" /\ made[dT].path = "pending"
          /\ made[dC].kind = "Catch" /\ made[dC].path = "settled"

\* ------------------------------------- claims on termination (FairSpecRace)

====
